---- MODULE Spec2Model ----
(***************************************************************************)
(* codecomplexity: the complexity visitors (analyzer.py, c_analyzer.py),   *)
(* the lines-of-code computation and the directory scanner (scanner.py).   *)
(*                                                                         *)
(* A parsed file is a syntax tree given in pre-order: node i of `tree` has *)
(* a kind, the index of its parent (0: the module / file root) and its     *)
(* source coordinates.  Nodes without a handler and without children that  *)
(* matter (names, constants, pass, expression statements, compound blocks, *)
(* try) are left out of the tree: generic_visit only walks through them.   *)
(* The visitor is a depth-first walk; `stack` is its call stack, one frame *)
(* per visit_* call that has not returned yet.                             *)
(***************************************************************************)
EXTENDS Integers, Sequences, FiniteSets, TLC

\* Bounds of the model.
MaxNodes == 3        \* nodes of a syntax tree of specification Spec
MaxOperands == 3     \* operands of one BoolOp node
MaxLines == 3        \* lines of a source file of specification SpecLoc
MaxFiles == 3        \* files of a directory of specification SpecScan
MaxCalls == 3        \* add_file calls of specification SpecProject
MaxPaths == 2        \* distinct file paths of specification SpecProject
MaxSwitchNodes == 5  \* nodes of a syntax tree of specification SpecSwitch
MaxBoolNodes == 4    \* nodes of a syntax tree of specification SpecBool
MaxTryNodes == 5     \* nodes of a syntax tree of specification SpecTry

VARIABLES
    lang,              \* "py" | "c": which visitor walks the tree
    tree,              \* the parsed file, pre-order
    source_lines,      \* PythonAnalyzer.source_lines: the file's lines, each a sequence of characters
    next,              \* the next node (pre-order index) the walk reaches
    stack,             \* call stack of the visit_* calls in progress
    heap,              \* the FunctionMetrics objects created so far, by identity
    functions,         \* visitor.functions: identities, in append order
    current_function,  \* visitor.current_function: an identity, or None
    nesting_depth,     \* visitor.nesting_depth
    source_files,      \* analyze_directory: what find_source_files returned
    scan_index,        \* analyze_directory: files the loop has gone through
    project,           \* analyze_directory: the ProjectMetrics being filled
    scan_pc,           \* analyze_directory: "idle" | "loop" | "returned" | "raised"
    progress_callback, \* analyze_directory: whether a callback was passed
    progress_calls,    \* the calls the callback received, in order
    added,             \* the (filepath, metrics) of the add_file calls made, in call order
    result,            \* what the last query or export of a ProjectMetrics returned
    args,              \* the parsed command line of the command that runs
    cli_pc,            \* the command's position; "returned" | "raised" at its end
    exit_code,         \* what the command returned
    effects,           \* what was done to the outside, in order: callback
                       \* calls, files analyzed, exports, reports
    baseline           \* the records of an earlier analysis, kept for comparison

input == <<lang, tree, source_lines>>

scanVars == <<source_files, scan_index, project, scan_pc, progress_callback,
              progress_calls>>

projectVars == <<added, result>>

cliVars == <<args, cli_pc, exit_code>>

vars == <<lang, tree, source_lines, next, stack, heap, functions,
          current_function, nesting_depth, source_files, scan_index, project,
          scan_pc, progress_callback, progress_calls, added, result, args,
          cli_pc, exit_code, effects, baseline>>

None == 0

\* Nothing was called yet; no command line was parsed.
NoResult == [call |-> "", value |-> None]

NoArgs == [command |-> ""]

\* No earlier analysis was kept.
NoBaseline == [tree |-> <<>>, records |-> <<>>]

(***************************************************************************)
(* Syntax trees                                                            *)
(***************************************************************************)
Node(k, p, nm, nv, o) ==
    [kind |-> k, parent |-> p, name |-> nm, nvalues |-> nv, op |-> o,
     lineno |-> 0, end_lineno |-> 0]

\* The kinds of Python node the analyzer has a handler for.
PyNestingKinds == {"If", "For", "While", "ExceptHandler", "With"}
\* Kinds it has no handler for: NodeVisitor.visit falls back to generic_visit.
PyGenericKinds == {"AsyncFunctionDef", "ClassDef", "BinOp", "Try"}

Names == {"f"}

\* <<kind, name, nvalues>> of the nodes a Python tree is built from.
PyLabels ==
    {<<"FunctionDef", nm, 0>> : nm \in Names}
    \cup {<<"AsyncFunctionDef", nm, 0>> : nm \in Names}
    \cup {<<k, "", 0>> : k \in PyNestingKinds \cup {"ClassDef"}}
    \cup {<<"BoolOp", "", v>> : v \in 2..MaxOperands}

RECURSIVE Spine(_, _)
\* Node i and its ancestors, the root included.
Spine(t, i) == IF i = 0 THEN {0} ELSE {i} \cup Spine(t, t[i].parent)

Children(t, p) == {i \in 1..Len(t) : t[i].parent = p}

\* What the Python grammar allows below a node: a BoolOp holds expressions
\* only, so no statement, and at most len(values) operands.
PyAllowed(t, p, k) ==
    IF p # 0 /\ t[p].kind = "BoolOp"
    THEN k = "BoolOp" /\ Cardinality(Children(t, p)) <= t[p].nvalues
    ELSE TRUE

\* parent[i] < i, and node i hangs below node i-1 or one of its ancestors.
PreOrder(par) ==
    /\ \A i \in DOMAIN par : par[i] < i
    /\ \A i \in DOMAIN par :
          i > 1 => par[i] \in Spine([j \in DOMAIN par |-> [parent |-> par[j]]], i - 1)

PyGrammar(t) == \A i \in 1..Len(t) : PyAllowed(t, t[i].parent, t[i].kind)

\* The kinds of C node CComplexityVisitor has a handler for.
CNestingKinds == {"If", "For", "While", "DoWhile", "Switch"}
\* Kinds it has no handler for.
CGenericKinds == {"Case", "Default", "Assignment"}
\* The short-circuit operators, and one that is not.
COps == {"&&", "||", "+"}

\* <<kind, name, op>> of the nodes a C tree is built from.
CLabels ==
    {<<"FuncDef", nm, "">> : nm \in Names}
    \cup {<<k, "", "">> : k \in CNestingKinds \cup CGenericKinds}
    \cup {<<"BinaryOp", "", o>> : o \in COps}

\* What pycparser's grammar allows below a node: function definitions at
\* file scope only and nothing else there, case and default labels in the
\* block of a switch, expressions (at most two) below an expression.
CAllowed(t, p, k) ==
    IF p = 0 THEN k = "FuncDef"
    ELSE /\ k # "FuncDef"
         /\ k \in {"Case", "Default"} => t[p].kind = "Switch"
         /\ t[p].kind \in {"BinaryOp", "Assignment"} =>
                k = "BinaryOp" /\ Cardinality(Children(t, p)) <= 2

CGrammar(t) == \A i \in 1..Len(t) : CAllowed(t, t[i].parent, t[i].kind)

\* The last node of the subtree of node i (pre-order: the subtree is i..Last).
Last(t, i) ==
    CHOOSE j \in i..Len(t) :
        /\ \A k \in (i + 1)..j : t[k].parent >= i
        /\ j = Len(t) \/ t[j + 1].parent < i

Subtree(t, i) == i..Last(t, i)

\* One node per physical line: node i starts on line i and ends on the last
\* line of its subtree.
OnePerLine(t) ==
    [i \in 1..Len(t) |-> [t[i] EXCEPT !.lineno = i, !.end_lineno = Last(t, i)]]

CodeLine == <<"x">>

(***************************************************************************)
(* Lines of code (PythonAnalyzer._calculate_loc)                           *)
(***************************************************************************)
Whitespace == {" ", "\t"}

RECURSIVE lstrip(_)
lstrip(s) == IF s # <<>> /\ Head(s) \in Whitespace THEN lstrip(Tail(s)) ELSE s

RECURSIVE rstrip(_)
rstrip(s) ==
    IF s # <<>> /\ s[Len(s)] \in Whitespace
    THEN rstrip(SubSeq(s, 1, Len(s) - 1)) ELSE s

\* str.strip()
strip(s) == rstrip(lstrip(s))

\* str.startswith('#')
startswith_hash(s) == s # <<>> /\ Head(s) = "#"

SetMax(S) == CHOOSE m \in S : \A x \in S : x <= m

RECURSIVE SumF(_, _)
\* The sum of f[x] over the x of S.
SumF(f, S) ==
    IF S = {} THEN 0
    ELSE LET x == CHOOSE y \in S : TRUE IN f[x] + SumF(f, S \ {x})

\* lines[start:end] of a Python list (0-based, end exclusive, clamped).
Slice(lines, start, end) ==
    LET e == IF end > Len(lines) THEN Len(lines) ELSE end
    IN  IF start >= e THEN <<>> ELSE SubSeq(lines, start + 1, e)

\* Mutant: the span starts after the definition line.
start_line_after_def(t, i) == t[i].lineno

\* start_line = node.lineno - 1
start_line(t, i) == t[i].lineno - 1

\* end_line = max(end_lineno of every node ast.walk(node) yields)
end_line(t, i) == SetMax({t[j].end_lineno : j \in Subtree(t, i)})

\* Mutant: the comment test looks at the unstripped line.
counts_as_code_unstripped(line) == strip(line) # <<>> /\ ~startswith_hash(line)

\* A line that counts: non-empty once stripped, and not starting with '#'.
counts_as_code(line) == strip(line) # <<>> /\ ~startswith_hash(strip(line))

calculate_loc(lines, t, i) ==
    LET span == Slice(lines, start_line(t, i), end_line(t, i))
    IN  Cardinality({k \in 1..Len(span) : counts_as_code(span[k])})

(***************************************************************************)
(* The walk                                                                *)
(***************************************************************************)
Top == IF stack = <<>> THEN 0 ELSE stack[Len(stack)].node

\* generic_visit of the node on top reaches its next child.
CanEnter == next <= Len(tree) /\ tree[next].parent = Top

\* generic_visit of the node on top has no child left: the handler resumes.
CanReturn == stack # <<>> /\ ~CanEnter

Done == stack = <<>> /\ next > Len(tree)

Frame(n, f, pf, pd) ==
    [node |-> n, func |-> f, previous_function |-> pf, previous_depth |-> pd]

\* FunctionMetrics.__init__
FunctionMetrics(nm, ln) ==
    [name |-> nm, lineno |-> ln, lines_of_code |-> 0,
     cyclomatic_complexity |-> 1, max_nesting_depth |-> 0]

\* Mutant: only constructs at the top level of the body are counted.
AddComplexity_top_level(d) ==
    IF current_function # None /\ nesting_depth = 0
    THEN [heap EXCEPT ![current_function].cyclomatic_complexity = @ + d]
    ELSE heap

\* `self.current_function.cyclomatic_complexity += d`, guarded by
\* `if self.current_function:`.
AddComplexity(d) ==
    IF current_function # None
    THEN [heap EXCEPT ![current_function].cyclomatic_complexity = @ + d]
    ELSE heap

\* Mutant: the depth is counted from the module, not from the definition.
StoredDepth_from_module == nesting_depth + stack[Len(stack)].previous_depth

\* The value visit_FunctionDef stores in func.max_nesting_depth once
\* generic_visit has returned.
StoredDepth == nesting_depth

\* Mutant: the record goes to the front of the list.
functions_prepend(f) == <<f>> \o functions

\* self.functions.append(func)
functions_append(f) == Append(functions, f)

\* Mutant: the function just finished stays the current one.
RestoredFunction_kept == current_function

\* What visit_FunctionDef restores into self.current_function.
RestoredFunction == stack[Len(stack)].previous_function

\* Mutant: the depth is reset, not restored.
RestoredDepth_reset == nesting_depth

\* What visit_FunctionDef restores into self.nesting_depth.
RestoredDepth == stack[Len(stack)].previous_depth

\* visit_FunctionDef, up to its generic_visit call.
visit_FunctionDef ==
    /\ lang = "py" /\ CanEnter /\ tree[next].kind = "FunctionDef"
    /\ LET func == Len(heap) + 1
           m == FunctionMetrics(tree[next].name, tree[next].lineno)
       IN  /\ heap' = Append(heap,
                  [m EXCEPT !.lines_of_code = calculate_loc(source_lines, tree, next)])
           /\ stack' = Append(stack, Frame(next, func, current_function, nesting_depth))
           /\ current_function' = func
    /\ nesting_depth' = 0
    /\ next' = next + 1
    /\ UNCHANGED <<input, scanVars, projectVars, cliVars, effects, baseline,
                   functions>>

\* visit_FunctionDef, from the return of generic_visit.
visit_FunctionDef_return ==
    /\ lang = "py" /\ CanReturn /\ tree[Top].kind = "FunctionDef"
    /\ LET fr == stack[Len(stack)]
       IN  /\ heap' = [heap EXCEPT ![fr.func].max_nesting_depth = StoredDepth]
           /\ nesting_depth' = RestoredDepth
           /\ current_function' = RestoredFunction
           /\ functions' = functions_append(fr.func)
    /\ stack' = SubSeq(stack, 1, Len(stack) - 1)
    /\ UNCHANGED <<input, scanVars, projectVars, cliVars, effects, baseline,
                   next>>

\* The shared shape of visit_If, visit_For, visit_While, visit_ExceptHandler
\* and visit_With up to generic_visit: complexity += d, nesting_depth += 1.
EnterNesting(d) ==
    /\ heap' = AddComplexity(d)
    /\ nesting_depth' = nesting_depth + 1
    /\ stack' = Append(stack, Frame(next, None, None, 0))
    /\ next' = next + 1
    /\ UNCHANGED <<input, scanVars, projectVars, cliVars, effects, baseline,
                   functions, current_function>>

visit_If == lang = "py" /\ CanEnter /\ tree[next].kind = "If" /\ EnterNesting(1)

visit_For == lang = "py" /\ CanEnter /\ tree[next].kind = "For" /\ EnterNesting(1)

visit_While == lang = "py" /\ CanEnter /\ tree[next].kind = "While" /\ EnterNesting(1)

visit_ExceptHandler ==
    lang = "py" /\ CanEnter /\ tree[next].kind = "ExceptHandler" /\ EnterNesting(1)

\* Mutant: a with statement counts as a branch.
WithDelta_counted(nd) == 1

\* visit_With has no `cyclomatic_complexity +=` statement.
WithDelta(nd) == 0

visit_With ==
    lang = "py" /\ CanEnter /\ tree[next].kind = "With" /\ EnterNesting(WithDelta(tree[next]))

\* `self.nesting_depth -= 1` after generic_visit, in each of the five.
nesting_return ==
    /\ lang = "py" /\ CanReturn /\ tree[Top].kind \in PyNestingKinds
    /\ nesting_depth' = nesting_depth - 1
    /\ stack' = SubSeq(stack, 1, Len(stack) - 1)
    /\ UNCHANGED <<input, scanVars, projectVars, cliVars, effects, baseline,
                   next, heap, functions, current_function>>

\* Mutant: every operand counts, the first included.
BoolOpDelta_all(nd) == nd.nvalues

\* len(node.values) - 1
BoolOpDelta(nd) == nd.nvalues - 1

visit_BoolOp ==
    /\ lang = "py" /\ CanEnter /\ tree[next].kind = "BoolOp"
    /\ heap' = AddComplexity(BoolOpDelta(tree[next]))
    /\ stack' = Append(stack, Frame(next, None, None, 0))
    /\ next' = next + 1
    /\ UNCHANGED <<input, scanVars, projectVars, cliVars, effects, baseline,
                   functions, current_function, nesting_depth>>

\* ast.NodeVisitor.visit of a node without a handler: generic_visit.
generic_visit ==
    /\ lang = "py" /\ CanEnter /\ tree[next].kind \in PyGenericKinds
    /\ stack' = Append(stack, Frame(next, None, None, 0))
    /\ next' = next + 1
    /\ UNCHANGED <<input, scanVars, projectVars, cliVars, effects, baseline,
                   heap, functions, current_function, nesting_depth>>

\* visit_BoolOp and generic_visit return without touching the visitor.
plain_return ==
    /\ lang = "py" /\ CanReturn /\ tree[Top].kind \in PyGenericKinds \cup {"BoolOp"}
    /\ stack' = SubSeq(stack, 1, Len(stack) - 1)
    /\ UNCHANGED <<input, scanVars, projectVars, cliVars, effects, baseline,
                   next, heap, functions, current_function, nesting_depth>>

\* PythonAnalyzer.__init__ (and CComplexityVisitor.__init__)
VisitorInit ==
    /\ next = 1
    /\ stack = <<>>
    /\ heap = <<>>
    /\ functions = <<>>
    /\ current_function = None
    /\ nesting_depth = 0

PyInit ==
    /\ lang = "py"
    /\ \E n \in 1..MaxNodes : \E par \in [1..n -> 0..(n - 1)] :
          /\ PreOrder(par)
          /\ \E lab \in [1..n -> PyLabels] :
                LET t == [i \in 1..n |-> Node(lab[i][1], par[i], lab[i][2], lab[i][3], "")]
                IN  PyGrammar(t) /\ tree = OnePerLine(t)
    /\ source_lines = [i \in 1..Len(tree) |-> CodeLine]
    /\ VisitorInit

PyNext ==
    \/ visit_FunctionDef
    \/ visit_FunctionDef_return
    \/ visit_If
    \/ visit_For
    \/ visit_While
    \/ visit_ExceptHandler
    \/ visit_With
    \/ nesting_return
    \/ visit_BoolOp
    \/ generic_visit
    \/ plain_return

(***************************************************************************)
(* The C visitor (c_analyzer.py)                                           *)
(***************************************************************************)
\* The nodes of the subtree of i a NodeVisitor reaches when its handlers for
\* the kinds in `stop` do not descend (they do not call generic_visit).
Reached(t, i, stop) ==
    {j \in Subtree(t, i) :
        \A a \in Spine(t, j) \ {j} : a > i => t[a].kind \notin stop}

\* CaseCounter: visit_Case counts and does not descend.
count_cases(t, i) ==
    Cardinality({j \in Reached(t, i, {"Case"}) : t[j].kind = "Case"})

IntMax(a, b) == IF a >= b THEN a ELSE b

\* Mutant: the statements of the body alone, the function's own declaration
\* left out.
estimate_loc_body_only(t, i) ==
    Cardinality({j \in Reached(t, i, {"Assignment"}) : t[j].kind = "Assignment"})

\* StatementCounter: the function's own Decl (func_node.decl) is counted,
\* then the Decl, Assignment, FuncCall and Return nodes of the body; the
\* handlers do not descend.
estimate_loc(t, i) ==
    IntMax(1 + Cardinality({j \in Reached(t, i, {"Assignment"}) :
                               t[j].kind = "Assignment"}), 1)

\* self.functions.append(func)
c_functions_append(f) == Append(functions, f)

\* The value visit_FuncDef stores in func.max_nesting_depth.
CStoredDepth == nesting_depth

\* visit_FuncDef, up to its generic_visit call.
c_visit_FuncDef ==
    /\ lang = "c" /\ CanEnter /\ tree[next].kind = "FuncDef"
    /\ LET func == Len(heap) + 1
           m == FunctionMetrics(tree[next].name, tree[next].lineno)
       IN  /\ heap' = Append(heap, [m EXCEPT !.lines_of_code = estimate_loc(tree, next)])
           /\ stack' = Append(stack, Frame(next, func, current_function, nesting_depth))
           /\ current_function' = func
    /\ nesting_depth' = 0
    /\ next' = next + 1
    /\ UNCHANGED <<input, scanVars, projectVars, cliVars, effects, baseline,
                   functions>>

\* visit_FuncDef, from the return of generic_visit.
c_visit_FuncDef_return ==
    /\ lang = "c" /\ CanReturn /\ tree[Top].kind = "FuncDef"
    /\ LET fr == stack[Len(stack)]
       IN  /\ heap' = [heap EXCEPT ![fr.func].max_nesting_depth = CStoredDepth]
           /\ current_function' = fr.previous_function
           /\ nesting_depth' = fr.previous_depth
           /\ functions' = c_functions_append(fr.func)
    /\ stack' = SubSeq(stack, 1, Len(stack) - 1)
    /\ UNCHANGED <<input, scanVars, projectVars, cliVars, effects, baseline,
                   next>>

c_visit_If == lang = "c" /\ CanEnter /\ tree[next].kind = "If" /\ EnterNesting(1)

c_visit_For == lang = "c" /\ CanEnter /\ tree[next].kind = "For" /\ EnterNesting(1)

c_visit_While == lang = "c" /\ CanEnter /\ tree[next].kind = "While" /\ EnterNesting(1)

c_visit_DoWhile == lang = "c" /\ CanEnter /\ tree[next].kind = "DoWhile" /\ EnterNesting(1)

\* case_count is only computed, and added, inside a function.
c_visit_Switch ==
    /\ lang = "c" /\ CanEnter /\ tree[next].kind = "Switch"
    /\ EnterNesting(count_cases(tree, next))

\* `self.nesting_depth -= 1` after generic_visit, in each of the five.
c_nesting_return ==
    /\ lang = "c" /\ CanReturn /\ tree[Top].kind \in CNestingKinds
    /\ nesting_depth' = nesting_depth - 1
    /\ stack' = SubSeq(stack, 1, Len(stack) - 1)
    /\ UNCHANGED <<input, scanVars, projectVars, cliVars, effects, baseline,
                   next, heap, functions, current_function>>

\* Mutant: only && counts.
BinaryOpDelta_and_only(nd) == IF nd.op = "&&" THEN 1 ELSE 0

\* 1 for node.op in ['&&', '||'], else nothing
BinaryOpDelta(nd) == IF nd.op \in {"&&", "||"} THEN 1 ELSE 0

c_visit_BinaryOp ==
    /\ lang = "c" /\ CanEnter /\ tree[next].kind = "BinaryOp"
    /\ heap' = AddComplexity(BinaryOpDelta(tree[next]))
    /\ stack' = Append(stack, Frame(next, None, None, 0))
    /\ next' = next + 1
    /\ UNCHANGED <<input, scanVars, projectVars, cliVars, effects, baseline,
                   functions, current_function, nesting_depth>>

\* c_ast.NodeVisitor.visit of a node without a handler: generic_visit.
c_generic_visit ==
    /\ lang = "c" /\ CanEnter /\ tree[next].kind \in CGenericKinds
    /\ stack' = Append(stack, Frame(next, None, None, 0))
    /\ next' = next + 1
    /\ UNCHANGED <<input, scanVars, projectVars, cliVars, effects, baseline,
                   heap, functions, current_function, nesting_depth>>

\* visit_BinaryOp and generic_visit return without touching the visitor.
c_plain_return ==
    /\ lang = "c" /\ CanReturn /\ tree[Top].kind \in CGenericKinds \cup {"BinaryOp"}
    /\ stack' = SubSeq(stack, 1, Len(stack) - 1)
    /\ UNCHANGED <<input, scanVars, projectVars, cliVars, effects, baseline,
                   next, heap, functions, current_function, nesting_depth>>

\* analyze_c_file: the parsed file and a new CComplexityVisitor.  The C
\* visitor keeps no source text.
CInit ==
    /\ lang = "c"
    /\ \E n \in 1..MaxNodes : \E par \in [1..n -> 0..(n - 1)] :
          /\ PreOrder(par)
          /\ \E lab \in [1..n -> CLabels] :
                LET t == [i \in 1..n |-> Node(lab[i][1], par[i], lab[i][2], 0, lab[i][3])]
                IN  CGrammar(t) /\ tree = OnePerLine(t)
    /\ source_lines = <<>>
    /\ VisitorInit

CNext ==
    \/ c_visit_FuncDef
    \/ c_visit_FuncDef_return
    \/ c_visit_If
    \/ c_visit_For
    \/ c_visit_While
    \/ c_visit_DoWhile
    \/ c_visit_Switch
    \/ c_nesting_return
    \/ c_visit_BinaryOp
    \/ c_generic_visit
    \/ c_plain_return

(***************************************************************************)
(* The directory scanner (scanner.py)                                      *)
(***************************************************************************)
\* ProjectMetrics.__init__; file_metrics is a dict, kept in insertion
\* order as a sequence of <<path, metrics>>.
ProjectMetrics == [file_metrics |-> <<>>, total_files |-> 0, total_functions |-> 0]

\* d[k] = v of a dict: a present key keeps its place.
DictSet(d, k, v) ==
    IF \E i \in 1..Len(d) : d[i][1] = k
    THEN [i \in 1..Len(d) |-> IF d[i][1] = k THEN <<k, v>> ELSE d[i]]
    ELSE Append(d, <<k, v>>)

\* ProjectMetrics.add_file
add_file(p, filepath, metrics) ==
    [file_metrics |-> DictSet(p.file_metrics, filepath, metrics),
     total_files |-> p.total_files + 1,
     total_functions |-> p.total_functions + Len(metrics)]

\* The classes of an exception: itself and its bases.
Mro(e) ==
    CASE e = "SyntaxError" -> {"SyntaxError", "Exception", "BaseException"}
      [] e = "UnicodeDecodeError" ->
            {"UnicodeDecodeError", "UnicodeError", "ValueError", "Exception",
             "BaseException"}
      [] e = "PermissionError" ->
            {"PermissionError", "OSError", "Exception", "BaseException"}
      [] e = "RecursionError" ->
            {"RecursionError", "RuntimeError", "Exception", "BaseException"}
      [] e = "ParseError" -> {"ParseError", "Exception", "BaseException"}
      [] e = "KeyboardInterrupt" -> {"KeyboardInterrupt", "BaseException"}
      [] e = "IsADirectoryError" ->
            {"IsADirectoryError", "OSError", "Exception", "BaseException"}
      [] e = "FileNotFoundError" ->
            {"FileNotFoundError", "OSError", "Exception", "BaseException"}

\* Mutant: only the first except clause.
Caught_first_clause(e) == Mro(e) \cap {"SyntaxError", "UnicodeDecodeError"} # {}

\* except (SyntaxError, UnicodeDecodeError): continue
\* except Exception: continue
Caught(e) ==
    \/ Mro(e) \cap {"SyntaxError", "UnicodeDecodeError"} # {}
    \/ "Exception" \in Mro(e)

\* The try block of one iteration, when nothing escapes it: the analyzer
\* chosen by the suffix either returns the file's metrics, which add_file
\* stores, or raises an exception that a clause catches (`continue`).
\* A file is [path, suffix, raises, metrics]: raises is "" when the
\* analyzer returns metrics.
analyze_one(p, f) ==
    IF f.suffix = ".py" \/ f.suffix \in {".c", ".h"}
    THEN IF f.raises = "" THEN add_file(p, f.path, f.metrics) ELSE p
    ELSE p

\* Mutant: the callback is invoked once the file has been analyzed.
iteration_effects_callback_last(f, total, index) ==
    (IF f.suffix \in {".py", ".c", ".h"} THEN <<<<"analyze", f.path>>>> ELSE <<>>)
    \o (IF progress_callback THEN <<<<"progress", f.path, total, index>>>> ELSE <<>>)

\* What one iteration does to the outside, in order: the callback, when one
\* was given, then the read and parse of the file by its analyzer.
iteration_effects(f, total, index) ==
    (IF progress_callback THEN <<<<"progress", f.path, total, index>>>> ELSE <<>>)
    \o (IF f.suffix \in {".py", ".c", ".h"} THEN <<<<"analyze", f.path>>>> ELSE <<>>)

\* One iteration of the loop of analyze_directory.
analyze_directory_file ==
    /\ scan_pc = "loop" /\ scan_index < Len(source_files)
    /\ LET index == scan_index + 1
           f == source_files[index]
       IN  /\ progress_calls' =
                 IF progress_callback
                 THEN Append(progress_calls, <<f.path, Len(source_files), index>>)
                 ELSE progress_calls
           /\ IF f.raises # "" /\ ~Caught(f.raises)
              THEN scan_pc' = "raised" /\ project' = project
              ELSE scan_pc' = scan_pc /\ project' = analyze_one(project, f)
           /\ effects' = effects \o iteration_effects(f, Len(source_files), index)
           /\ scan_index' = index
    /\ UNCHANGED <<input, next, stack, heap, functions, current_function,
                   nesting_depth, source_files, progress_callback,
                   projectVars, cliVars, baseline>>

\* return project
analyze_directory_return ==
    /\ scan_pc = "loop" /\ scan_index = Len(source_files)
    /\ scan_pc' = "returned"
    /\ UNCHANGED <<input, next, stack, heap, functions, current_function,
                   nesting_depth, source_files, scan_index, project,
                   progress_callback, progress_calls, projectVars, cliVars,
                   effects, baseline>>

\* A FunctionMetrics an analyzer returned, with complexity c.
Metric(c) == [FunctionMetrics("f", 1) EXCEPT !.cyclomatic_complexity = c, !.lines_of_code = 1]

\* What analyzing one discovered file can come to: <<suffix, raises, metrics>>.
FileOutcomes ==
    {<<".py", "", <<>>>>,
     <<".py", "", <<Metric(1)>>>>,
     <<".py", "", <<Metric(1), Metric(3)>>>>,
     <<".c", "", <<Metric(2)>>>>,
     <<".py", "SyntaxError", <<>>>>,
     <<".py", "UnicodeDecodeError", <<>>>>,
     <<".py", "PermissionError", <<>>>>,
     <<".py", "RecursionError", <<>>>>,
     <<".c", "ParseError", <<>>>>,
     <<".h", "UnicodeDecodeError", <<>>>>,
     <<".py", "KeyboardInterrupt", <<>>>>}

\* The exceptions that mean the file could not be read, decoded, parsed or
\* visited (KeyboardInterrupt is the user's).
FileFailures ==
    {"SyntaxError", "UnicodeDecodeError", "PermissionError", "RecursionError",
     "ParseError"}

\* No scan is running.
ScanIdle ==
    /\ source_files = <<>>
    /\ scan_index = 0
    /\ project = ProjectMetrics
    /\ scan_pc = "idle"
    /\ progress_callback = FALSE
    /\ progress_calls = <<>>

\* No ProjectMetrics is driven directly, and no command runs.
CliIdle ==
    /\ added = <<>>
    /\ result = NoResult
    /\ args = NoArgs
    /\ cli_pc = "idle"
    /\ exit_code = None
    /\ effects = <<>>
    /\ baseline = NoBaseline

\* No visitor is running.
VisitorIdle ==
    /\ lang = "py"
    /\ tree = <<>>
    /\ source_lines = <<>>
    /\ VisitorInit

\* analyze_directory, up to its loop: find_source_files returns sorted,
\* distinct paths (path i is the i-th in sorted order).
ScanInit ==
    /\ VisitorIdle
    /\ \E n \in 0..MaxFiles : \E o \in [1..n -> FileOutcomes] :
          source_files = [i \in 1..n |->
              [path |-> i, suffix |-> o[i][1], raises |-> o[i][2], metrics |-> o[i][3]]]
    /\ scan_index = 0
    /\ project = ProjectMetrics
    /\ scan_pc = "loop"
    /\ progress_callback \in BOOLEAN
    /\ progress_calls = <<>>
    /\ CliIdle

ScanNext == analyze_directory_file \/ analyze_directory_return

SpecScan == ScanInit /\ [][ScanNext]_vars

(***************************************************************************)
(* ProjectMetrics driven directly: add_file, the queries, the export       *)
(***************************************************************************)
RECURSIVE extend_all(_)
\* for metrics in values: all_functions.extend(metrics)
extend_all(d) == IF d = <<>> THEN <<>> ELSE Head(d)[2] \o extend_all(Tail(d))

\* ProjectMetrics.get_all_functions
get_all_functions(p) == extend_all(p.file_metrics)

\* f.cyclomatic_complexity of a FunctionMetrics held by reference
cyclomatic_complexity(f) == heap[f].cyclomatic_complexity

RECURSIVE sum(_)
\* sum(...) of a list of integers
sum(xs) == IF xs = <<>> THEN 0 ELSE Head(xs) + sum(Tail(xs))

RECURSIVE gcd(_, _)
gcd(a, b) == IF b = 0 THEN a ELSE gcd(b, a % b)

\* A float is named by the fraction in lowest terms it is the nearest
\* double to (distinct fractions of small integers have distinct doubles).
Float(a, b) == [num |-> a \div gcd(a, b), den |-> b \div gcd(a, b)]

\* Mutant: floor division.
floordiv(a, b) == Float(a \div b, 1)

\* a / b of two integers, b > 0
truediv(a, b) == Float(a, b)

\* ProjectMetrics.get_average_complexity
get_average_complexity(p) ==
    LET all_functions == get_all_functions(p)
        total_complexity ==
            sum([k \in 1..Len(all_functions) |-> cyclomatic_complexity(all_functions[k])])
    IN  IF all_functions = <<>> THEN Float(0, 1)
        ELSE truediv(total_complexity, Len(all_functions))

\* ProjectMetrics.get_max_complexity
get_max_complexity(p) ==
    LET all_functions == get_all_functions(p)
    IN  IF all_functions = <<>> THEN 0
        ELSE SetMax({cyclomatic_complexity(all_functions[k]) : k \in 1..Len(all_functions)})

DigitChars == <<"0", "1", "2", "3", "4", "5", "6", "7", "8", "9">>

RECURSIVE json_int(_)
\* json.dump of a non-negative int: its decimal digits.
json_int(n) ==
    IF n < 10 THEN <<DigitChars[n + 1]>>
    ELSE json_int(n \div 10) \o <<DigitChars[(n % 10) + 1]>>

RECURSIVE json_load_int(_)
\* json.load of a run of decimal digits.
json_load_int(ds) ==
    IF ds = <<>> THEN 0
    ELSE 10 * json_load_int(SubSeq(ds, 1, Len(ds) - 1))
            + ((CHOOSE d \in 1..10 : DigitChars[d] = ds[Len(ds)]) - 1)

\* round(x, 2) of a float, in hundredths.  A tie is resolved to the even
\* hundredth; x is exactly half-way only when its denominator is a power
\* of two, and then the double is the fraction itself.
round2(x) ==
    LET q == (100 * x.num) \div x.den
        r == (100 * x.num) % x.den
    IN  IF 2 * r > x.den \/ (2 * r = x.den /\ q % 2 = 1) THEN q + 1 ELSE q

\* Mutant: the function count is recomputed from the mapping.
summary_total_functions_recounted(p) == Len(get_all_functions(p))

\* "total_functions": project.total_functions
summary_total_functions(p) == p.total_functions

\* The per-file entries of the export: the files whose list is not empty
\* (`if metrics:`), in the mapping's order.
export_files(d) ==
    LET kept == {i \in 1..Len(d) : d[i][2] # <<>>}
        nth(k) == CHOOSE i \in kept : Cardinality({j \in kept : j < i}) = k - 1
    IN  [k \in 1..Cardinality(kept) |->
            [file |-> d[nth(k)][1],
             total_functions |-> json_int(Len(d[nth(k)][2])),
             functions |-> d[nth(k)][2]]]

\* export_project_to_json: the document json.dump writes.
export_project_to_json(p) ==
    [summary |->
        [total_files |-> json_int(p.total_files),
         total_functions |-> json_int(summary_total_functions(p)),
         average_complexity |-> round2(get_average_complexity(p)),
         highest_complexity |-> json_int(get_max_complexity(p))],
     files |-> export_files(p.file_metrics)]

\* The FunctionMetrics objects two analyzers returned, and the lists they
\* were returned in.
ProjectHeap == <<Metric(1), Metric(3), Metric(2)>>

MetricLists == {<<>>, <<1>>, <<2, 3>>, <<3>>}

Call(name, value) == [call |-> name, value |-> value]

\* project.add_file(filepath, metrics), which returns None.
add_file_call ==
    /\ Len(added) < MaxCalls
    /\ \E filepath \in 1..MaxPaths : \E metrics \in MetricLists :
          /\ project' = add_file(project, filepath, metrics)
          /\ added' = Append(added, <<filepath, metrics>>)
    /\ result' = Call("add_file", None)
    /\ UNCHANGED <<input, next, stack, heap, functions, current_function,
                   nesting_depth, source_files, scan_index, scan_pc,
                   progress_callback, progress_calls, cliVars, effects, baseline>>

\* A query or an export of the project: nothing but its returned value.
Query(name, value) ==
    /\ result' = Call(name, value)
    /\ UNCHANGED <<input, scanVars, added, cliVars, effects, baseline, next,
                   stack, heap, functions, current_function, nesting_depth>>

get_all_functions_call ==
    Query("get_all_functions", get_all_functions(project))

get_average_complexity_call ==
    Query("get_average_complexity", get_average_complexity(project))

get_max_complexity_call ==
    Query("get_max_complexity", get_max_complexity(project))

export_project_to_json_call ==
    Query("export_project_to_json", export_project_to_json(project))

\* ProjectMetrics(): an empty project, next to the records of finished
\* analyses.
ProjectInit ==
    /\ lang = "py" /\ tree = <<>> /\ source_lines = <<>>
    /\ next = 1 /\ stack = <<>>
    /\ heap = ProjectHeap
    /\ functions = [h \in 1..Len(ProjectHeap) |-> h]
    /\ current_function = None
    /\ nesting_depth = 0
    /\ ScanIdle
    /\ CliIdle

ProjectNext ==
    \/ add_file_call
    \/ get_all_functions_call
    \/ get_average_complexity_call
    \/ get_max_complexity_call
    \/ export_project_to_json_call

SpecProject == ProjectInit /\ [][ProjectNext]_vars

(***************************************************************************)
(* The commands (cli.py)                                                   *)
(***************************************************************************)
\* args, with what the run finds outside: args.target is what the path
\* names ("missing" | "file" | "dir"), args.raises what analyze_python_file
\* raises on it ("": it returns), args.files the source files under the
\* directory in sorted order, args.export_raises what writing args.output
\* raises ("": the file is written).
Args(c, t, sfx, out, r, xr, fs) ==
    [command |-> c, target |-> t, suffix |-> sfx, output |-> out,
     raises |-> r, export_raises |-> xr, files |-> fs]

\* The command returns `code`, or an exception leaves it.
Finish(code) == cli_pc' = "returned" /\ exit_code' = code

Escape == cli_pc' = "raised" /\ exit_code' = exit_code

\* print(..., file=sys.stderr), print(...)
Stderr(text) == <<"stderr", text>>

Stdout(text) == <<"stdout", text>>

\* Mutant: only existence is checked.
analyze_command_rejects_missing_only(a) ==
    IF a.target = "missing" THEN "not found" ELSE ""

\* The two validations of analyze_command: the message of the one that
\* fails, "" when the path is accepted.
analyze_command_rejects(a) ==
    IF a.target = "missing" THEN "not found"
    ELSE IF a.target # "file" THEN "is not a file"
    ELSE ""

\* The two validations of scan_command.
scan_command_rejects(a) ==
    IF a.target = "missing" THEN "not found"
    ELSE IF a.target # "dir" THEN "is not a directory"
    ELSE ""

\* Mutant: only the first except clause.
analyze_command_catches_SyntaxError(e) == "SyntaxError" \in Mro(e)

\* except SyntaxError as e: ... return 1
\* except Exception as e: ... return 1
analyze_command_catches(e) == "SyntaxError" \in Mro(e) \/ "Exception" \in Mro(e)

\* except Exception as e: ... return 1
scan_command_catches(e) == "Exception" \in Mro(e)

\* An exception reaches the handlers of analyze_command.
analyze_command_except(e, done) ==
    IF analyze_command_catches(e)
    THEN effects' = done \o <<Stderr("Error")>> /\ Finish(1)
    ELSE effects' = done /\ Escape

\* An exception reaches the handler of scan_command.
scan_command_except(e, done) ==
    IF scan_command_catches(e)
    THEN effects' = done \o <<Stderr("Error")>> /\ Finish(1)
    ELSE effects' = done /\ Escape

CliFrame ==
    UNCHANGED <<input, scanVars, projectVars, baseline, next, stack, heap,
                functions, current_function, nesting_depth, args>>

\* analyze_command, up to the try block.
analyze_command_validate ==
    /\ cli_pc = "start" /\ args.command = "analyze"
    /\ IF analyze_command_rejects(args) # ""
       THEN /\ effects' = Append(effects, Stderr(analyze_command_rejects(args)))
            /\ Finish(1)
       ELSE /\ effects' = IF args.suffix # ".py"
                           THEN Append(effects, Stderr("Warning")) ELSE effects
            /\ cli_pc' = "analyze" /\ exit_code' = exit_code
    /\ CliFrame

\* metrics = analyze_python_file(filepath)
analyze_command_analyze ==
    /\ cli_pc = "analyze" /\ args.command = "analyze"
    /\ LET done == effects \o <<Stdout("Analyzing"), <<"analyze", "filepath">>>>
       IN  IF args.raises # "" THEN analyze_command_except(args.raises, done)
           ELSE /\ effects' = done
                /\ cli_pc' = IF args.output THEN "export" ELSE "format"
                /\ exit_code' = exit_code
    /\ CliFrame

\* if args.output: export_to_json(metrics, filepath, args.output)
analyze_command_export ==
    /\ cli_pc = "export" /\ args.command = "analyze"
    /\ IF args.export_raises # ""
       THEN analyze_command_except(args.export_raises, effects)
       ELSE /\ effects' = effects \o <<<<"export", "file">>, Stdout("exported")>>
            /\ cli_pc' = "format" /\ exit_code' = exit_code
    /\ CliFrame

\* print(format_metrics_output(...)); return 0
analyze_command_format ==
    /\ cli_pc = "format" /\ args.command = "analyze"
    /\ effects' = Append(effects, Stdout("report"))
    /\ Finish(0)
    /\ CliFrame

\* The files find_source_files keeps by extension.
selected_by_extension(files, include_c) ==
    SelectSeq(files, LAMBDA f : f.suffix = ".py" \/ (include_c /\ f.suffix \in {".c", ".h"}))

\* scan_command, up to the try block.
scan_command_validate ==
    /\ cli_pc = "start" /\ args.command = "scan"
    /\ IF scan_command_rejects(args) # ""
       THEN /\ effects' = Append(effects, Stderr(scan_command_rejects(args)))
            /\ Finish(1)
       ELSE /\ effects' = effects
            /\ cli_pc' = "scan" /\ exit_code' = exit_code
    /\ CliFrame

\* def analyze_directory(directory, recursive=True, include_c=False,
\*                       progress_callback=None): the parameters in order,
\* each with its default ("" where it has none).
analyze_directory_parameters ==
    <<<<"directory", "">>, <<"recursive", "True">>, <<"include_c", "False">>,
      <<"progress_callback", "None">>>>

\* The arguments of the call in scan_command, all positional:
\* analyze_directory(directory, recursive, show_progress).
scan_command_arguments == <<"directory", "recursive", "show_progress">>

\* Python's binding of positional arguments: the i-th argument goes to the
\* i-th parameter, a parameter without argument keeps its default.
Bound(parameters, arguments, name) ==
    LET i == CHOOSE k \in 1..Len(parameters) : parameters[k][1] = name
    IN  IF i <= Len(arguments) THEN arguments[i] ELSE parameters[i][2]

\* bool(v): a function object is true.
Truthy(v) == v \notin {"False", "None"}

\* project = analyze_directory(directory, recursive, show_progress), up to
\* the loop of analyze_directory.
scan_command_analyze_directory ==
    /\ cli_pc = "scan" /\ args.command = "scan"
    /\ LET include_c == Truthy(Bound(analyze_directory_parameters,
                                     scan_command_arguments, "include_c"))
       IN  source_files' = selected_by_extension(args.files, include_c)
    /\ progress_callback' = Truthy(Bound(analyze_directory_parameters,
                                         scan_command_arguments,
                                         "progress_callback"))
    /\ scan_index' = 0
    /\ project' = ProjectMetrics
    /\ scan_pc' = "loop"
    /\ progress_calls' = <<>>
    /\ effects' = Append(effects, Stdout("Scanning directory"))
    /\ cli_pc' = "scanning"
    /\ UNCHANGED <<input, projectVars, baseline, next, stack, heap, functions,
                   current_function, nesting_depth, args, exit_code>>

\* analyze_directory has returned the project, or an exception left it.
scan_command_resume ==
    /\ cli_pc = "scanning" /\ scan_pc \in {"returned", "raised"}
    /\ IF scan_pc = "raised"
       THEN scan_command_except(source_files[scan_index].raises, effects)
       ELSE /\ effects' = effects
            /\ cli_pc' = IF args.output THEN "export" ELSE "format"
            /\ exit_code' = exit_code
    /\ CliFrame

\* if args.output: export_project_to_json(project, args.output)
scan_command_export ==
    /\ cli_pc = "export" /\ args.command = "scan"
    /\ IF args.export_raises # ""
       THEN scan_command_except(args.export_raises, effects)
       ELSE /\ effects' = effects \o <<<<"export", "project">>, Stdout("exported")>>
            /\ cli_pc' = "format" /\ exit_code' = exit_code
    /\ CliFrame

\* print(format_project_output(...)); return 0
scan_command_format ==
    /\ cli_pc = "format" /\ args.command = "scan"
    /\ effects' = Append(effects, Stdout("report"))
    /\ Finish(0)
    /\ CliFrame

\* What analyze_python_file does on what the path names.
AnalysisRaises(t) ==
    CASE t = "missing" -> {"FileNotFoundError"}
      [] t = "dir" -> {"IsADirectoryError"}
      [] t = "file" -> FileFailures \cup {"", "KeyboardInterrupt"}

\* What analyzing one file of a scanned directory can come to.
CliOutcomes ==
    {<<".py", "", <<Metric(1)>>>>,
     <<".c", "", <<Metric(2)>>>>,
     <<".py", "SyntaxError", <<>>>>,
     <<".c", "ParseError", <<>>>>,
     <<".py", "KeyboardInterrupt", <<>>>>}

\* main: args parsed, the command about to be dispatched.
CliInit ==
    /\ VisitorIdle
    /\ ScanIdle
    /\ added = <<>> /\ result = NoResult /\ baseline = NoBaseline
    /\ effects = <<>>
    /\ exit_code = None
    /\ cli_pc = "start"
    /\ \E t \in {"missing", "file", "dir"} : \E out \in BOOLEAN :
       \E xr \in {"", "PermissionError"} :
          \/ \E sfx \in {".py", ".txt"} : \E r \in AnalysisRaises(t) :
                args = Args("analyze", t, sfx, out, r, xr, <<>>)
          \/ \E n \in 0..MaxFiles : \E o \in [1..n -> CliOutcomes] :
                args = Args("scan", t, "", out, "", xr,
                            IF t = "dir"
                            THEN [i \in 1..n |->
                                    [path |-> i, suffix |-> o[i][1],
                                     raises |-> o[i][2], metrics |-> o[i][3]]]
                            ELSE <<>>)

CliNext ==
    \/ analyze_command_validate
    \/ analyze_command_analyze
    \/ analyze_command_export
    \/ analyze_command_format
    \/ scan_command_validate
    \/ scan_command_analyze_directory
    \/ analyze_directory_file
    \/ analyze_directory_return
    \/ scan_command_resume
    \/ scan_command_export
    \/ scan_command_format

SpecCli == CliInit /\ [][CliNext]_vars

(***************************************************************************)
(* An analyzed file handed to a ProjectMetrics; a file analyzed again      *)
(***************************************************************************)
\* The Python trees the two specifications below walk.
RecordLabels ==
    {<<"FunctionDef", "f", 0>>, <<"AsyncFunctionDef", "f", 0>>,
     <<"If", "", 0>>, <<"BoolOp", "", 2>>}

RecordsInit ==
    /\ lang = "py"
    /\ \E n \in 1..MaxNodes : \E par \in [1..n -> 0..(n - 1)] :
          /\ PreOrder(par)
          /\ \E lab \in [1..n -> RecordLabels] :
                LET t == [i \in 1..n |-> Node(lab[i][1], par[i], lab[i][2], lab[i][3], "")]
                IN  PyGrammar(t) /\ tree = OnePerLine(t)
    /\ source_lines = [i \in 1..Len(tree) |-> CodeLine]
    /\ VisitorInit
    /\ ScanIdle
    /\ CliIdle

\* metrics = analyze_python_file(filepath); project.add_file(filepath, metrics)
\* of analyze_directory: the list the visitor filled goes into the project.
add_analyzed_file ==
    /\ Done /\ Len(tree) > 0 /\ added = <<>>
    /\ project' = add_file(project, 1, functions)
    /\ added' = <<<<1, functions>>>>
    /\ result' = Call("add_file", None)
    /\ UNCHANGED <<input, next, stack, heap, functions, current_function,
                   nesting_depth, source_files, scan_index, scan_pc,
                   progress_callback, progress_calls, cliVars, effects, baseline>>

RecordsNext ==
    \/ visit_FunctionDef
    \/ visit_FunctionDef_return
    \/ visit_If
    \/ nesting_return
    \/ visit_BoolOp
    \/ generic_visit
    \/ plain_return
    \/ add_analyzed_file
    \/ get_all_functions_call
    \/ get_average_complexity_call
    \/ get_max_complexity_call
    \/ export_project_to_json_call

SpecRecords == RecordsInit /\ [][RecordsNext]_vars

\* A construct at module scope: a control structure or boolean expression
\* that no function definition encloses.
ModuleLevel(t, i) ==
    /\ t[i].kind \in PyNestingKinds \cup {"BoolOp"}
    /\ \A a \in Spine(t, i) \ {0, i} :
          t[a].kind \notin {"FunctionDef", "AsyncFunctionDef"}

\* The file without its module-level constructs: what they enclosed hangs
\* where they hung; every line keeps its number.
WithoutModuleLevel(t) ==
    LET kept == {i \in 1..Len(t) : ~ModuleLevel(t, i)}
        nth(k) == CHOOSE i \in kept : Cardinality({j \in kept : j < i}) = k - 1
        index(i) == Cardinality({j \in kept : j <= i})
        up(i) == (Spine(t, i) \ {i}) \cap (kept \cup {0})
    IN  [k \in 1..Cardinality(kept) |->
            [t[nth(k)] EXCEPT !.parent =
                IF SetMax(up(nth(k))) = 0 THEN 0 ELSE index(SetMax(up(nth(k))))]]

\* analyze_python_file, called on the file without its module-level
\* constructs once the file itself was analyzed: what the first analysis
\* returned is kept, and a new PythonAnalyzer starts on the new tree.
analyze_without_module_level ==
    /\ Done /\ baseline = NoBaseline
    /\ baseline' = [tree |-> tree,
                    records |-> [k \in 1..Len(functions) |-> heap[functions[k]]]]
    /\ tree' = WithoutModuleLevel(tree)
    /\ next' = 1
    /\ stack' = <<>>
    /\ heap' = <<>>
    /\ functions' = <<>>
    /\ current_function' = None
    /\ nesting_depth' = 0
    /\ UNCHANGED <<lang, source_lines, scanVars, projectVars, cliVars, effects>>

AgainNext == PyNext \/ analyze_without_module_level

\* analyze_python_file on the file as it is.
AgainInit == PyInit /\ ScanIdle /\ CliIdle

SpecAgain == AgainInit /\ [][AgainNext]_vars

(***************************************************************************)
(* Lines of code: source files with blank and comment lines                *)
(***************************************************************************)
\* The texts a physical line is drawn from: empty, blank, comment,
\* indented comment, code, indented code, code with a trailing comment,
\* tab-indented code with a trailing blank.
LineTexts ==
    {<<>>, <<" ">>, <<"#">>, <<" ", "#", "x">>, <<"x">>, <<" ", "x">>,
     <<"x", " ", "#">>, <<"\t", "x", " ">>}

NodeAt(k, p, ln, end) ==
    [kind |-> k, parent |-> p, name |-> IF k = "FunctionDef" THEN "f" ELSE "",
     nvalues |-> 0, op |-> "", lineno |-> ln, end_lineno |-> end]

\* The trees over a file of n lines: one function definition on lines a..b,
\* alone or with one compound statement on lines c..d of its body.
LocTrees(n) ==
    {<<NodeAt("FunctionDef", 0, a, b)>> : <<a, b>> \in {x \in (1..n) \X (1..n) : x[1] <= x[2]}}
    \cup
    {<<NodeAt("FunctionDef", 0, y[1], y[2]), NodeAt(y[5], 1, y[3], y[4])>> :
        y \in {x \in (1..n) \X (1..n) \X (1..n) \X (1..n) \X {"FunctionDef", "If"} :
                  x[1] < x[3] /\ x[3] <= x[4] /\ x[4] <= x[2]}}

\* The file of the end-to-end example, and its tree (print(i) and return x
\* have no handler: they only extend the spans).
ExampleSource ==
    <<<<"d", "e", "f", " ", "f", "(", "x", ")", ":">>,
      <<" ", " ", " ", " ", "i", "f", " ", "x", " ", ">", " ", "0", ":">>,
      <<" ", " ", " ", " ", " ", " ", " ", " ", "f", "o", "r", " ", "i", " ", "i", "n", " ", "r", "a", "n", "g", "e", "(", "x", ")", ":">>,
      <<" ", " ", " ", " ", " ", " ", " ", " ", " ", " ", " ", " ", "p", "r", "i", "n", "t", "(", "i", ")">>,
      <<" ", " ", " ", " ", "r", "e", "t", "u", "r", "n", " ", "x">>>>

ExampleTree ==
    <<NodeAt("FunctionDef", 0, 1, 5), NodeAt("If", 1, 2, 4), NodeAt("For", 2, 3, 4)>>

\* analyze_python_file: the text read, the tree parsed, a new PythonAnalyzer.
LocInit ==
    /\ lang = "py"
    /\ \/ \E n \in 1..MaxLines : \E txt \in [1..n -> LineTexts] :
             /\ source_lines = txt
             /\ tree \in LocTrees(n)
       \/ source_lines = ExampleSource /\ tree = ExampleTree
    /\ VisitorInit
    /\ ScanIdle
    /\ CliIdle

LocNext ==
    \/ visit_FunctionDef
    \/ visit_FunctionDef_return
    \/ visit_If
    \/ visit_For
    \/ nesting_return

SpecLoc == LocInit /\ [][LocNext]_vars

(***************************************************************************)
(* C functions made of switch statements                                   *)
(***************************************************************************)
\* The C trees made of function definitions, switch statements and their
\* case and default labels.
SwitchLabels ==
    {<<"FuncDef", "f", "">>, <<"Switch", "", "">>, <<"Case", "", "">>,
     <<"Default", "", "">>}

\* analyze_c_file on a file of such functions.
SwitchInit ==
    /\ lang = "c"
    /\ \E n \in 1..MaxSwitchNodes : \E par \in [1..n -> 0..(n - 1)] :
          /\ PreOrder(par)
          /\ \E lab \in [1..n -> SwitchLabels] :
                LET t == [i \in 1..n |-> Node(lab[i][1], par[i], lab[i][2], 0, lab[i][3])]
                IN  CGrammar(t) /\ tree = OnePerLine(t)
    /\ source_lines = <<>>
    /\ VisitorInit
    /\ ScanIdle
    /\ CliIdle

SwitchNext ==
    \/ c_visit_FuncDef
    \/ c_visit_FuncDef_return
    \/ c_visit_Switch
    \/ c_nesting_return
    \/ c_generic_visit
    \/ c_plain_return

SpecSwitch == SwitchInit /\ [][SwitchNext]_vars

(***************************************************************************)
(* find_source_files (scanner.py)                                          *)
(***************************************************************************)
\* One component of a path: its name, and the suffix of that name.
Part(n, sfx) == [name |-> n, suffix |-> sfx]

\* The names in use, in the order str compares them.
NameOrder ==
    <<"/", "a.py", "b.py", "build", "c.py", "d.c", "e.py", "g.py", "home",
      "pkg.egg-info", "proj", "src", "venv", "z.py">>

Rank(n) == CHOOSE k \in 1..Len(NameOrder) : NameOrder[k] = n

\* What can lie below the scanned directory: the path relative to it, and
\* whether it is a directory.
Entry(parts, d) == [parts |-> parts, is_dir |-> d]

Entries ==
    {Entry(<<Part("a.py", ".py")>>, FALSE),
     Entry(<<Part("src", ""), Part("b.py", ".py")>>, FALSE),
     Entry(<<Part("build", ""), Part("c.py", ".py")>>, FALSE),
     Entry(<<Part("src", ""), Part("d.c", ".c")>>, FALSE),
     Entry(<<Part("pkg.egg-info", ".egg-info"), Part("e.py", ".py")>>, FALSE),
     Entry(<<Part("src", ""), Part("venv", ""), Part("g.py", ".py")>>, FALSE),
     Entry(<<Part("z.py", ".py")>>, TRUE)}

\* Path(args.directory): absolute, absolute below a directory called
\* build, or relative.
Directories ==
    {<<Part("/", ""), Part("home", ""), Part("proj", "")>>,
     <<Part("/", ""), Part("home", ""), Part("build", ""), Part("proj", "")>>,
     <<Part("proj", "")>>}

skip_dirs ==
    {".venv", "venv", "env", "ENV", "__pycache__", ".git", "node_modules",
     ".tox", ".pytest_cache", "build", "dist", ".eggs", "*.egg-info"}

\* extensions = ['*.py']; if include_c: extensions.extend(['*.c', '*.h'])
extensions(include_c) ==
    <<".py">> \o (IF include_c THEN <<".c", ".h">> ELSE <<>>)

\* Path.rglob('*' + ext): every entry below the directory, at any depth,
\* whose name ends in ext; directories are entries too.
rglob(directory, entries, ext) ==
    {directory \o e.parts : e \in {x \in entries : x.parts[Len(x.parts)].suffix = ext}}

\* Path.glob('*' + ext): the same among the directory's own entries.
glob(directory, entries, ext) ==
    {directory \o e.parts :
        e \in {x \in entries : Len(x.parts) = 1 /\ x.parts[1].suffix = ext}}

\* any(part in skip_dirs for part in path.parts)
skipped(directory, path) == \E i \in 1..Len(path) : path[i].name \in skip_dirs

RECURSIVE PathLess(_, _)
\* PurePath.__lt__: the components compared one after the other.
PathLess(p, q) ==
    IF p = <<>> THEN q # <<>>
    ELSE IF q = <<>> THEN FALSE
    ELSE IF Head(p).name = Head(q).name THEN PathLess(Tail(p), Tail(q))
    ELSE Rank(Head(p).name) < Rank(Head(q).name)

RECURSIVE InSomeOrder(_)
\* The paths of a set in the order the file system yields them.
InSomeOrder(S) ==
    IF S = {} THEN <<>>
    ELSE LET x == CHOOSE y \in S : TRUE IN <<x>> \o InSomeOrder(S \ {x})

RECURSIVE found(_, _, _, _)
\* The two loops over extensions: source_files once each extension of
\* exts was globbed.
found(directory, entries, recursive, exts) ==
    IF exts = <<>> THEN <<>>
    ELSE LET ext == Head(exts)
             here == IF recursive
                     THEN {path \in rglob(directory, entries, ext) :
                              ~skipped(directory, path)}
                     ELSE glob(directory, entries, ext)
         IN  InSomeOrder(here) \o found(directory, entries, recursive, Tail(exts))

find_source_files(directory, entries, recursive, include_c) ==
    SortSeq(found(directory, entries, recursive, extensions(include_c)), PathLess)

\* A call of find_source_files is about to be made.
FindInit ==
    /\ VisitorIdle
    /\ ScanIdle
    /\ added = <<>> /\ result = NoResult /\ baseline = NoBaseline
    /\ effects = <<>>
    /\ exit_code = None
    /\ cli_pc = "start"
    /\ \E d \in Directories : \E es \in SUBSET Entries :
       \E r \in BOOLEAN : \E c \in BOOLEAN :
          args = [command |-> "find", directory |-> d, entries |-> es,
                  recursive |-> r, include_c |-> c]

find_source_files_call ==
    /\ cli_pc = "start" /\ args.command = "find"
    /\ source_files' = find_source_files(args.directory, args.entries,
                                         args.recursive, args.include_c)
    /\ cli_pc' = "returned"
    /\ UNCHANGED <<input, next, stack, heap, functions, current_function,
                   nesting_depth, scan_index, project, scan_pc,
                   progress_callback, progress_calls, projectVars, args,
                   exit_code, effects, baseline>>

FindNext == find_source_files_call

SpecFind == FindInit /\ [][FindNext]_vars

(***************************************************************************)
(* Python functions made of try and with statements                        *)
(***************************************************************************)
\* A try statement (no handler of the visitor: its body, handlers, else and
\* finally blocks are reached by generic_visit), its except clauses, and
\* with statements.
TryLabels ==
    {<<"FunctionDef", nm, 0>> : nm \in Names}
    \cup {<<k, "", 0>> : k \in {"Try", "ExceptHandler", "With"}}

\* ast.Try holds its clauses in `handlers`: an ExceptHandler has a Try for
\* parent.  The other children of a Try are the statements of its body,
\* else and finally blocks.
TryGrammar(t) ==
    \A i \in 1..Len(t) :
        t[i].kind = "ExceptHandler" => t[i].parent # 0 /\ t[t[i].parent].kind = "Try"

\* analyze_python_file on a file of such functions.
TryInit ==
    /\ lang = "py"
    /\ \E n \in 1..MaxTryNodes : \E par \in [1..n -> 0..(n - 1)] :
          /\ PreOrder(par)
          /\ \E lab \in [1..n -> TryLabels] :
                LET t == [i \in 1..n |-> Node(lab[i][1], par[i], lab[i][2], lab[i][3], "")]
                IN  TryGrammar(t) /\ tree = OnePerLine(t)
    /\ source_lines = [i \in 1..Len(tree) |-> CodeLine]
    /\ VisitorInit
    /\ ScanIdle
    /\ CliIdle

TryNext ==
    \/ visit_FunctionDef
    \/ visit_FunctionDef_return
    \/ visit_ExceptHandler
    \/ visit_With
    \/ nesting_return
    \/ generic_visit
    \/ plain_return

SpecTry == TryInit /\ [][TryNext]_vars

(***************************************************************************)
(* One expression, written in Python and in C                              *)
(***************************************************************************)
\* A Python function whose body is made of expressions: boolean operations
\* of 2..MaxOperands values and arithmetic ones (BinOp, no handler).
BoolLabels ==
    {<<"BoolOp", "", v>> : v \in 2..MaxOperands} \cup {<<"BinOp", "", 0>>}

\* What the Python grammar allows in such a function: an operation holds
\* at most as many sub-expressions as it has operands.
BoolGrammar(t) ==
    \A i \in 1..Len(t) :
        /\ t[i].kind = "BoolOp" => Cardinality(Children(t, i)) <= t[i].nvalues
        /\ t[i].kind = "BinOp" => Cardinality(Children(t, i)) <= 2

\* analyze_python_file on `def f: <expressions>`.
BoolInit ==
    /\ lang = "py"
    /\ \E n \in 1..MaxBoolNodes : \E par \in [1..n -> 0..(n - 1)] :
          /\ PreOrder(par)
          /\ \A i \in 2..n : par[i] >= 1
          /\ \E lab \in [2..n -> BoolLabels] :
                LET t == [i \in 1..n |->
                            IF i = 1 THEN Node("FunctionDef", 0, "f", 0, "")
                            ELSE Node(lab[i][1], par[i], lab[i][2], lab[i][3], "")]
                IN  BoolGrammar(t) /\ tree = OnePerLine(t)
    /\ source_lines = [i \in 1..Len(tree) |-> CodeLine]
    /\ VisitorInit
    /\ ScanIdle
    /\ CliIdle

\* The C nodes a Python node is written as: an n-ary boolean operation of
\* v values is a chain of v - 1 binary ones, ((v1 op v2) op v3) ...
OwnSize(t, j) == IF t[j].kind = "BoolOp" THEN t[j].nvalues - 1 ELSE 1

\* Where the C nodes of Python node j start: pre-order is kept.
CStart(t, j) == 1 + SumF([i \in 1..(j - 1) |-> OwnSize(t, i)], 1..(j - 1))

\* The C node that holds Python node j as an operand: the k-th
\* sub-expression of a boolean operation is its k-th operand, operands 1
\* and 2 those of the innermost binary node of the chain, operand k > 2 the
\* right operand of the (k-1)-th node from the inside.
CHolder(t, j) ==
    LET q == t[j].parent
        k == Cardinality({c \in Children(t, q) : c <= j})
    IN  IF q = 0 THEN 0
        ELSE IF t[q].kind = "BoolOp"
        THEN CStart(t, q) + OwnSize(t, q) - (IF k <= 2 THEN 1 ELSE k - 1)
        ELSE CStart(t, q)

\* Nesting depth of boolean operations at Python node j.
BoolDepth(t, j) == Cardinality({a \in Spine(t, j) \ {0} : t[a].kind = "BoolOp"})

\* The same function written in C: `and` / `or` are && / || (the operator
\* alternates with the depth of the operation), BinOp is +.
CRendering(t) ==
    LET size == SumF([i \in 1..Len(t) |-> OwnSize(t, i)], 1..Len(t))
        src(c) == CHOOSE j \in 1..Len(t) :
                      CStart(t, j) <= c /\ c < CStart(t, j) + OwnSize(t, j)
    IN  [c \in 1..size |->
            LET j == src(c)
            IN  Node(IF t[j].kind = "FunctionDef" THEN "FuncDef" ELSE "BinaryOp",
                     IF c > CStart(t, j) THEN c - 1 ELSE CHolder(t, j),
                     t[j].name, 0,
                     CASE t[j].kind = "FunctionDef" -> ""
                       [] t[j].kind = "BinOp" -> "+"
                       [] BoolDepth(t, j) % 2 = 1 -> "&&"
                       [] OTHER -> "||")]

\* analyze_c_file on the C rendering, once the Python file was analyzed:
\* the Python records are kept and a new CComplexityVisitor starts.
analyze_c_rendering ==
    /\ lang = "py" /\ Done /\ baseline = NoBaseline
    /\ baseline' = [tree |-> tree,
                    records |-> [k \in 1..Len(functions) |-> heap[functions[k]]]]
    /\ lang' = "c"
    /\ tree' = OnePerLine(CRendering(tree))
    /\ source_lines' = <<>>
    /\ next' = 1
    /\ stack' = <<>>
    /\ heap' = <<>>
    /\ functions' = <<>>
    /\ current_function' = None
    /\ nesting_depth' = 0
    /\ UNCHANGED <<scanVars, projectVars, cliVars, effects>>

BoolNext ==
    \/ visit_FunctionDef
    \/ visit_FunctionDef_return
    \/ visit_BoolOp
    \/ generic_visit
    \/ plain_return
    \/ analyze_c_rendering
    \/ c_visit_FuncDef
    \/ c_visit_FuncDef_return
    \/ c_visit_BinaryOp
    \/ c_plain_return

SpecBool == BoolInit /\ [][BoolNext]_vars

Init == (PyInit \/ CInit) /\ ScanIdle /\ CliIdle

Next == PyNext \/ CNext

Spec == Init /\ [][Next]_vars

(***************************************************************************)
(* Reference notions, read off the tree and the files alone                *)
(***************************************************************************)
\* The function definitions of the two languages.
FunctionKinds == {"FunctionDef", "AsyncFunctionDef", "FuncDef"}

\* The definitions a visitor has a handler for.
RecordedKind == IF lang = "py" THEN "FunctionDef" ELSE "FuncDef"

NestingKinds == IF lang = "py" THEN PyNestingKinds ELSE CNestingKinds

\* The innermost function definition that encloses node j (0: none).
Enclosing(j) ==
    LET up == {a \in Spine(tree, j) \ {j, 0} : tree[a].kind \in FunctionKinds}
    IN  IF up = {} THEN 0 ELSE SetMax(up)

\* The nodes of function f's own body: not those of an inner function.
OwnBody(f) == {j \in Subtree(tree, f) \ {f} : Enclosing(j) = f}

\* The control structures around node j inside f, j included.
NestLevel(f, j) ==
    Cardinality({a \in Spine(tree, j) : a > f /\ tree[a].kind \in NestingKinds})

Deepest(f) == SetMax({0} \cup {NestLevel(f, j) : j \in OwnBody(f)})

\* The definition a FunctionMetrics was made for.
DefNode(h) ==
    CHOOSE i \in 1..Len(tree) :
        tree[i].kind = RecordedKind /\ tree[i].lineno = heap[h].lineno

Completed == {functions[k] : k \in 1..Len(functions)}

OnlyKinds(f, K) == \A j \in Subtree(tree, f) \ {f} : tree[j].kind \in K

\* What one Python node adds to its function by the accumulation table.
PyDelta(j) ==
    CASE tree[j].kind \in {"If", "For", "While", "ExceptHandler"} -> 1
      [] tree[j].kind = "BoolOp" -> tree[j].nvalues - 1
      [] OTHER -> 0

RECURSIVE Operands(_)
\* The operands of the boolean expression rooted at BoolOp r that are not
\* boolean operations themselves.
Operands(r) ==
    LET sub == Children(tree, r)
    IN  tree[r].nvalues - Cardinality(sub)
            + SumF([c \in sub |-> Operands(c)], sub)

\* The boolean expressions of f: the BoolOp nodes not inside another.
Expressions(f) ==
    {j \in Subtree(tree, f) \ {f} :
        tree[j].kind = "BoolOp" /\ tree[tree[j].parent].kind # "BoolOp"}

(***************************************************************************)
(* Claims about the visitors (specification Spec)                          *)
(***************************************************************************)
\* C1: the recorded max_nesting_depth of every visited function is the
\* deepest level of control-structure nesting reached in its own body.
C1_MaxNestingIsDeepest ==
    \A h \in Completed : heap[h].max_nesting_depth = Deepest(DefNode(h))

\* C3: a function whose body holds only if/for/while constructs has
\* cyclomatic_complexity 1 + the number of those constructs, however they
\* are arranged.
C3_ComplexityCountsConstructs ==
    \A h \in Completed :
        OnlyKinds(DefNode(h), {"If", "For", "While"}) =>
            heap[h].cyclomatic_complexity
                = 1 + Cardinality(Subtree(tree, DefNode(h)) \ {DefNode(h)})

\* A finished walk of `def f: if ...: for ...:` (the constructs nested).
C3_Witness ==
    /\ Done /\ Len(tree) = 3
    /\ tree[1].kind = RecordedKind
    /\ tree[2].kind = "If" /\ tree[2].parent = 1
    /\ tree[3].kind = "For" /\ tree[3].parent = 2
    /\ heap[functions[1]].cyclomatic_complexity = 3

C4_Additive ==
    \A h \in Completed :
        LET f == DefNode(h)
            loops == {j \in Subtree(tree, f) : tree[j].kind \in {"If", "For", "While"}}
            exprs == Expressions(f)
        IN  lang = "py" /\ OnlyKinds(f, {"If", "For", "While", "BoolOp"}) =>
                heap[h].cyclomatic_complexity
                    = 1 + Cardinality(loops)
                        + SumF([r \in exprs |-> Operands(r) - 1], exprs)

C4_NestingUntouched ==
    [][(/\ lang = "py"
        /\ \/ CanEnter /\ tree[next].kind = "BoolOp"
           \/ CanReturn /\ tree[Top].kind = "BoolOp")
       => nesting_depth' = nesting_depth]_vars

\* C4: a boolean expression of k operands adds k-1 to its function's
\* cyclomatic_complexity, on top of the +1 of each conditional or loop,
\* and visiting it leaves the nesting depth as it was.
C4_BoolOpAddsOperandsMinusOne == []C4_Additive /\ C4_NestingUntouched

\* A finished walk of `def f: if a and b and c:`, complexity 4.
C4_Witness ==
    /\ Done /\ lang = "py" /\ Len(tree) = 3
    /\ tree[1].kind = "FunctionDef"
    /\ tree[2].kind = "If" /\ tree[2].parent = 1
    /\ tree[3].kind = "BoolOp" /\ tree[3].parent = 2 /\ tree[3].nvalues = 3
    /\ heap[functions[1]].cyclomatic_complexity = 4

\* C5: a function's cyclomatic_complexity counts the decision points of its
\* own body only, none of an inner function definition, and every
\* definition nested in it has a record of its own once it is finished.
C5_InnerFunctionsScoped ==
    lang = "py" =>
        \A h \in Completed :
            LET f == DefNode(h)
            IN  /\ heap[h].cyclomatic_complexity
                      = 1 + SumF([j \in OwnBody(f) |-> PyDelta(j)], OwnBody(f))
                /\ \A i \in Subtree(tree, f) :
                      tree[i].kind \in FunctionKinds =>
                          \E g \in Completed : heap[g].lineno = tree[i].lineno

\* C6: once the file is walked, the result list holds exactly one record
\* per function definition of the file, and none for any other node.
C6_OneRecordPerDefinition ==
    Done =>
        \A i \in 1..Len(tree) :
            Cardinality({k \in 1..Len(functions) :
                            heap[functions[k]].lineno = tree[i].lineno})
                = IF tree[i].kind \in FunctionKinds THEN 1 ELSE 0

\* C7: the result list is in completion order: of two records the earlier
\* one is nested in the later one, or precedes it in the source and does
\* not enclose it; the records are those of the definitions finished.
C7_CompletionOrder ==
    /\ \A a, b \in 1..Len(functions) :
          a < b =>
              LET x == DefNode(functions[a])
                  y == DefNode(functions[b])
              IN  \/ y \in Spine(tree, x) \ {x}
                  \/ x < y /\ x \notin Spine(tree, y)
    /\ {DefNode(h) : h \in Completed}
          = {i \in 1..Len(tree) :
                /\ tree[i].kind = RecordedKind
                /\ Last(tree, i) < next
                /\ \A s \in 1..Len(stack) : stack[s].node # i}

\* A finished walk of an outer function holding an inner one, followed by
\* a sibling: the records are inner, outer, sibling.
C7_Witness ==
    /\ Done /\ Len(tree) = 3 /\ Len(functions) = 3
    /\ \A i \in 1..3 : tree[i].kind = "FunctionDef"
    /\ tree[2].parent = 1 /\ tree[3].parent = 0
    /\ heap[functions[1]].lineno = 2
    /\ heap[functions[2]].lineno = 1
    /\ heap[functions[3]].lineno = 3

\* The frames of the function definitions being visited.
FunctionFrames == {s \in 1..Len(stack) : stack[s].func # None}

\* The frames of the control structures entered since the innermost
\* function definition being visited was entered (since the start, if none).
OpenStructures ==
    {s \in 1..Len(stack) :
        /\ tree[stack[s].node].kind \in NestingKinds
        /\ \A g \in FunctionFrames : g < s}

\* C21: the context is a function of the calls in progress, so the return
\* of a visit leaves current_function and nesting_depth as they were at
\* its entry: current_function is the innermost definition being
\* visited (none outside), nesting_depth the number of structures open
\* inside it, 0 on entry to a body and never negative; both are none and 0
\* once the tree is visited.
C21_ContextRestored ==
    /\ current_function
          = IF FunctionFrames = {} THEN None ELSE stack[SetMax(FunctionFrames)].func
    /\ nesting_depth = Cardinality(OpenStructures)
    /\ nesting_depth >= 0
    /\ \A s \in FunctionFrames :
          /\ stack[s].previous_function
                = IF \E g \in FunctionFrames : g < s
                  THEN stack[SetMax({g \in FunctionFrames : g < s})].func
                  ELSE None
          /\ stack[s].previous_depth
                = Cardinality({o \in 1..(s - 1) :
                      /\ tree[stack[o].node].kind \in NestingKinds
                      /\ \A g \in FunctionFrames : g < s => g < o})
    /\ (stack # <<>> /\ stack[Len(stack)].func # None /\ next = Top + 1)
          => nesting_depth = 0
    /\ Done => current_function = None /\ nesting_depth = 0

\* `if ...: def f: pass`, then a second statement in the if: the visit of
\* f has returned into the if, one structure open and no current function.
C21_Witness ==
    /\ lang = "py" /\ Len(tree) = 3
    /\ tree[1].kind = "If"
    /\ tree[2].kind = "FunctionDef" /\ tree[2].parent = 1
    /\ tree[3].parent = 1
    /\ next = 3 /\ Len(stack) = 1 /\ Len(functions) = 1
    /\ nesting_depth = 1 /\ current_function = None

\* The case labels of function f.
CaseLabels(f) == {j \in Subtree(tree, f) : tree[j].kind = "Case"}

\* C22: every case label of a C function is counted exactly once in its
\* cyclomatic_complexity, wherever its switch stands: 1 + the number of
\* case labels for a function made of switch statements.
C22_EachCaseCountedOnce ==
    \A h \in Completed :
        heap[h].cyclomatic_complexity = 1 + Cardinality(CaseLabels(DefNode(h)))

\* A switch stands inside another one and not in the block of one of its
\* case labels: in the block of its default label, or before any label.
SwitchOutsideCase ==
    \E j, a \in 1..Len(tree) :
        /\ tree[j].kind = "Switch" /\ tree[a].kind = "Switch"
        /\ a \in Spine(tree, j) \ {j}
        /\ \A c \in Spine(tree, j) : c > a => tree[c].kind # "Case"

\* The except clauses of function f's own body that the walk has entered.
HandlersEntered(f) ==
    {j \in OwnBody(f) : tree[j].kind = "ExceptHandler" /\ j < next}

\* The with statements and except clauses open around the walk's position,
\* inside the innermost function being visited.
OpenBlocks ==
    {s \in OpenStructures : tree[stack[s].node].kind \in {"With", "ExceptHandler"}}

\* C24: inside a function each except clause adds exactly 1 to
\* cyclomatic_complexity, so a try statement with m except clauses adds m and
\* the try itself, its else and finally blocks add 0; a with statement adds
\* 0 to cyclomatic_complexity and raises the nesting counter by 1 while its
\* body is visited.  In a file of try and with statements: at every step a
\* function being visited has 1 plus the number of its except clauses entered
\* so far, a finished one has 1 plus the number of its except clauses, and
\* the nesting counter is the number of with statements and except clauses
\* open around the position.
C24_HandlersCountWithDoesNot ==
    /\ \A s \in FunctionFrames :
          heap[stack[s].func].cyclomatic_complexity
              = 1 + Cardinality(HandlersEntered(stack[s].node))
    /\ \A h \in Completed :
          heap[h].cyclomatic_complexity
              = 1 + Cardinality({j \in OwnBody(DefNode(h)) :
                                    tree[j].kind = "ExceptHandler"})
    /\ nesting_depth = Cardinality(OpenBlocks)

\* def f(): try: with ..: .. / except: .. / except: ..  has been analyzed:
\* two handlers, one with statement, complexity 3.
C24_Witness ==
    /\ lang = "py" /\ Done
    /\ Len(tree) = 5
    /\ tree[1].kind = "FunctionDef"
    /\ tree[2].kind = "Try" /\ tree[2].parent = 1
    /\ tree[3].kind = "With" /\ tree[3].parent = 2
    /\ tree[4].kind = "ExceptHandler" /\ tree[4].parent = 2
    /\ tree[5].kind = "ExceptHandler" /\ tree[5].parent = 2
    /\ Len(functions) = 1
    /\ heap[functions[1]].cyclomatic_complexity = 3
    /\ nesting_depth = 0

RECURSIVE ChainOperands(_)
\* The operands of the short-circuit expression rooted at BoolOp r: its
\* values and those of the boolean operations among them; a value that is
\* anything else, an arithmetic expression included, is one operand.
ChainOperands(r) ==
    LET sub == {c \in Children(tree, r) : tree[c].kind = "BoolOp"}
    IN  tree[r].nvalues - Cardinality(sub)
            + SumF([c \in sub |-> ChainOperands(c)], sub)

\* C23: the two boolean rules agree.  The Python record of a function made
\* of expressions has 1 + the sum of (operands - 1) over its boolean
\* expressions (len(values) - 1 per BoolOp node), and the record the C
\* visitor makes of the same function, where each && or || adds 1 and
\* any other binary operator 0, has the same cyclomatic_complexity.
C23_BooleanRulesAgree ==
    /\ lang = "py" =>
          \A h \in Completed :
              LET exprs == Expressions(DefNode(h))
              IN  heap[h].cyclomatic_complexity
                      = 1 + SumF([r \in exprs |-> ChainOperands(r) - 1], exprs)
    /\ lang = "c" /\ Done =>
          /\ Len(functions) = Len(baseline.records)
          /\ \A k \in 1..Len(functions) :
                heap[functions[k]].cyclomatic_complexity
                    = baseline.records[k].cyclomatic_complexity

\* `a and (b or c) and d` in Python, `a && (b || c) && d` in C: 4 in both.
C23_Witness ==
    /\ lang = "c" /\ Done
    /\ Len(baseline.tree) = 3
    /\ baseline.tree[2].kind = "BoolOp" /\ baseline.tree[2].nvalues = 3
    /\ baseline.tree[3].kind = "BoolOp" /\ baseline.tree[3].nvalues = 2
    /\ baseline.tree[3].parent = 2
    /\ Len(tree) = 4
    /\ tree[2].op = "&&" /\ tree[3].op = "&&" /\ tree[4].op = "||"
    /\ heap[functions[1]].cyclomatic_complexity = 4

\* Every record, finished or not, is within its ranges.
C18_MetricsInRange ==
    \A h \in 1..Len(heap) :
        /\ heap[h].cyclomatic_complexity >= 1
        /\ heap[h].lines_of_code >= 0
        /\ heap[h].max_nesting_depth >= 0
        /\ lang = "c" => heap[h].lines_of_code >= 1

C18_ComplexityNeverDecreases ==
    [][\A h \in 1..Len(heap) :
          heap'[h].cyclomatic_complexity >= heap[h].cyclomatic_complexity]_vars

\* C18: in every state of either visitor every FunctionMetrics has
\* cyclomatic_complexity >= 1, lines_of_code >= 0 (>= 1 in the C visitor)
\* and max_nesting_depth >= 0, and no step lowers a cyclomatic_complexity.
C18_MetricsStayInRange == []C18_MetricsInRange /\ C18_ComplexityNeverDecreases

\* A C function without statements whose switch has no case label: the
\* walk is inside it, complexity 1, lines_of_code 1.
C18_Witness ==
    /\ lang = "c" /\ current_function # None /\ Len(stack) = 2
    /\ tree[stack[2].node].kind = "Switch"
    /\ heap[current_function].cyclomatic_complexity = 1
    /\ heap[current_function].lines_of_code = 1

(***************************************************************************)
(* Claims about finished records (SpecRecords, SpecAgain)                  *)
(***************************************************************************)
\* C19: once a record is in the visitor's result list, no step changes any
\* of its fields: not the rest of the traversal, not add_file, not a query
\* or an export of the project that holds it.
C19_RecordsImmutable ==
    [][\A h \in Completed : heap'[h] = heap[h]]_vars

\* An inner function was finished, the outer one went on with an `if`, the
\* list was added to a project and its mean complexity asked for.
C19_Witness ==
    /\ Len(tree) = 3
    /\ tree[1].kind = "FunctionDef"
    /\ tree[2].kind = "FunctionDef" /\ tree[2].parent = 1
    /\ tree[3].kind = "If" /\ tree[3].parent = 1
    /\ added # <<>>
    /\ result.call = "get_average_complexity"
    /\ heap[functions[1]].cyclomatic_complexity = 1
    /\ heap[functions[2]].cyclomatic_complexity = 2

\* C20: the records of a file are those of the same file without its
\* module-level constructs, field by field: a construct outside every
\* function definition, also one that encloses a definition, changes no
\* cyclomatic_complexity and no max_nesting_depth.
C20_ModuleLevelLeavesRecords ==
    Done /\ baseline # NoBaseline =>
        /\ Len(functions) = Len(baseline.records)
        /\ \A k \in 1..Len(functions) :
              /\ heap[functions[k]].lineno = baseline.records[k].lineno
              /\ heap[functions[k]].cyclomatic_complexity
                    = baseline.records[k].cyclomatic_complexity
              /\ heap[functions[k]].max_nesting_depth
                    = baseline.records[k].max_nesting_depth

\* `if ...: def f: if ...` was analyzed, then `def f: if ...`.
C20_Witness ==
    /\ Done /\ Len(baseline.tree) = 3 /\ Len(tree) = 2
    /\ baseline.tree[1].kind = "If"
    /\ baseline.tree[2].kind = "FunctionDef" /\ baseline.tree[2].parent = 1
    /\ baseline.tree[3].kind = "If" /\ baseline.tree[3].parent = 2
    /\ tree[1].kind = "FunctionDef" /\ tree[1].parent = 0
    /\ tree[2].kind = "If" /\ tree[2].parent = 1
    /\ Len(functions) = 1
    /\ heap[functions[1]].cyclomatic_complexity = 2

(***************************************************************************)
(* Claims about lines_of_code (specification SpecLoc)                      *)
(***************************************************************************)
\* A physical line counts when its first character that is not white
\* space exists and is not '#'.
IsCodeLine(line) ==
    \E i \in 1..Len(line) :
        /\ line[i] \notin Whitespace
        /\ line[i] # "#"
        /\ \A j \in 1..(i - 1) : line[j] \in Whitespace

\* The counting lines from the definition line of f through its last line.
RefLoc(f) ==
    Cardinality({l \in tree[f].lineno..tree[f].end_lineno :
                    IsCodeLine(source_lines[l])})

ExampleDone == Done /\ source_lines = ExampleSource /\ tree = ExampleTree

\* C2, as stated: the example file yields one record, lines_of_code 4.
C2_ExampleLocIs4 ==
    ExampleDone => Len(functions) = 1 /\ heap[functions[1]].lines_of_code = 4

\* C2, amended: the example file yields one record, for f, whose
\* lines_of_code is 5 (the definition line is counted).
C2_ExampleLocIs5 ==
    ExampleDone =>
        /\ Len(functions) = 1
        /\ heap[functions[1]].name = "f"
        /\ heap[functions[1]].lines_of_code = 5

C2_Witness == ExampleDone /\ Len(functions) = 1

\* C8: lines_of_code is the number of physical lines, from the definition
\* line through the function's last line, that are neither blank nor
\* comment-only; a line with a trailing comment counts.
C8_LocCountsCodeLines ==
    \A h \in 1..Len(heap) : heap[h].lines_of_code = RefLoc(DefNode(h))

\* A function of three lines: code, an indented comment, code with a
\* trailing comment; two of them count.
C8_Witness ==
    /\ Done
    /\ source_lines = <<<<"x">>, <<" ", "#", "x">>, <<"x", " ", "#">>>>
    /\ Len(tree) = 1 /\ tree[1].lineno = 1 /\ tree[1].end_lineno = 3
    /\ heap[functions[1]].lines_of_code = 2

(***************************************************************************)
(* Claims about analyze_directory (specification SpecScan)                 *)
(***************************************************************************)
\* The files among the first n whose analysis returned metrics.
Analyzed(n) == {i \in 1..n : source_files[i].raises = ""}

\* C9: a file that cannot be read, decoded, parsed or visited never makes
\* analyze_directory raise; the scan goes through every file, and the
\* ProjectMetrics holds the successfully analyzed files and nothing of the
\* failed ones.
C9_FailedFilesAreSkipped ==
    /\ project.total_files = Cardinality(Analyzed(scan_index))
    /\ Len(project.file_metrics) = Cardinality(Analyzed(scan_index))
    /\ {project.file_metrics[k][1] : k \in 1..Len(project.file_metrics)}
          = {source_files[i].path : i \in Analyzed(scan_index)}
    /\ project.total_functions
          = SumF([i \in Analyzed(scan_index) |-> Len(source_files[i].metrics)],
                 Analyzed(scan_index))
    /\ scan_pc = "returned" => scan_index = Len(source_files)
    /\ scan_pc = "raised" => source_files[scan_index].raises \notin FileFailures

\* Two files, the first unparseable: the scan returns with total_files 1.
C9_Witness ==
    /\ scan_pc = "returned" /\ Len(source_files) = 2
    /\ source_files[1].raises = "SyntaxError"
    /\ source_files[2].raises = ""
    /\ project.total_files = 1

\* What really was skipped: each failed file with the reason.
Skipped(files) ==
    {<<files[i].path, files[i].raises>> : i \in {j \in 1..Len(files) : files[j].raises # ""}}

RECURSIVE ScanResult(_, _)
\* The ProjectMetrics a scan of `files` returns, from p on.
ScanResult(p, files) ==
    IF files = <<>> THEN p
    ELSE ScanResult(analyze_one(p, Head(files)), Tail(files))

\* The directories with the same files as the one scanned, each file with
\* any outcome of its analysis.
SameFiles ==
    {alt \in [1..Len(source_files) -> [path : 1..Len(source_files),
                                        suffix : {".py", ".c", ".h"},
                                        raises : FileFailures \cup {""},
                                        metrics : {o[3] : o \in FileOutcomes}]] :
        \A i \in 1..Len(source_files) :
            /\ alt[i].path = source_files[i].path
            /\ alt[i].suffix = source_files[i].suffix
            /\ <<alt[i].suffix, alt[i].raises, alt[i].metrics>> \in FileOutcomes}

\* C10: what the caller holds once analyze_directory has returned (the
\* ProjectMetrics and the progress calls) tells which files were skipped
\* and why: no other outcome of the same files yields the same.
C10_SkipsAreObtainable ==
    scan_pc = "returned" =>
        \A alt \in SameFiles :
            ScanResult(ProjectMetrics, alt) = project =>
                Skipped(alt) = Skipped(source_files)

\* C16: with a progress callback, analyze_directory calls it once for each
\* discovered file, in sorted order with indices 1..total, skipped files
\* included; each call comes after the previous file was dealt with and
\* before the file's own read and parse.
C16_ProgressBeforeEachFile ==
    IF progress_callback
    THEN /\ progress_calls
               = [i \in 1..scan_index |->
                     <<source_files[i].path, Len(source_files), i>>]
         /\ scan_pc = "returned" => Len(progress_calls) = Len(source_files)
         /\ Len(effects) = 2 * scan_index
         /\ \A i \in 1..scan_index :
               /\ effects[2 * i - 1]
                     = <<"progress", source_files[i].path, Len(source_files), i>>
               /\ effects[2 * i] = <<"analyze", source_files[i].path>>
    ELSE progress_calls = <<>>

\* Two files, the first unparseable: the callback was called for both.
C16_Witness ==
    /\ progress_callback /\ scan_pc = "returned"
    /\ Len(source_files) = 2
    /\ source_files[1].raises = "SyntaxError"
    /\ source_files[2].raises = ""
    /\ progress_calls = <<<<1, 2, 1>>, <<2, 2, 2>>>>

\* The entries of `effects` that are calls of the progress callback.
ProgressEffects == SelectSeq(effects, LAMBDA e : e[1] = "progress")

\* C25: when the scan command runs on a valid directory, its show_progress
\* callback is invoked once for each file analyze_directory processes: the
\* callback defined in scan_command reaches analyze_directory as its
\* progress_callback.
C25_ScanShowsProgress ==
    args.command = "scan" /\ scan_pc # "idle" =>
        /\ progress_callback
        /\ Len(ProgressEffects) = scan_index

\* C26: the scan command discovers and analyzes only Python files:
\* analyze_directory runs with include_c false, and no .c or .h file of the
\* directory is discovered, analyzed or added to the ProjectMetrics.
C26_ScanIsPythonOnly ==
    args.command = "scan" /\ scan_pc # "idle" =>
        /\ \A i \in 1..Len(source_files) : source_files[i].suffix = ".py"
        /\ \A k \in 1..Len(project.file_metrics) :
              \A i \in 1..Len(args.files) :
                  args.files[i].path = project.file_metrics[k][1]
                      => args.files[i].suffix = ".py"
        /\ \A e \in 1..Len(effects) :
              effects[e][1] = "analyze" =>
                  \A i \in 1..Len(args.files) :
                      args.files[i].path = effects[e][2]
                          => args.files[i].suffix = ".py"

\* The files below the directory whose extension is selected and that lie
\* in no excluded directory below it.
SourceFilesBelow(directory, entries, include_c) ==
    {directory \o e.parts :
        e \in {x \in entries :
                  /\ ~x.is_dir
                  /\ \E k \in 1..Len(extensions(include_c)) :
                        x.parts[Len(x.parts)].suffix = extensions(include_c)[k]
                  /\ \A i \in 1..(Len(x.parts) - 1) :
                        x.parts[i].name \notin skip_dirs}}

\* C27: in recursive mode find_source_files returns, sorted and without
\* duplicates, exactly the files under the root whose extension is selected
\* and that lie in no excluded directory below the root; the result depends
\* on the tree below the root only, not on the names of the root's ancestors.
C27_FilesBelowRootOnly ==
    args.command = "find" /\ cli_pc = "returned" /\ args.recursive =>
        /\ \A i \in 1..(Len(source_files) - 1) :
              PathLess(source_files[i], source_files[i + 1])
        /\ {source_files[i] : i \in 1..Len(source_files)}
              = SourceFilesBelow(args.directory, args.entries, args.include_c)

\* The same but for two things: directories named like a source file, and
\* scanned directories that have an excluded name on their own path.
C27_ButForRootAndDirectories ==
    (/\ args.command = "find" /\ cli_pc = "returned" /\ args.recursive
     /\ ~skipped(args.directory, args.directory)
     /\ \A e \in args.entries : ~e.is_dir)
    => /\ \A i \in 1..(Len(source_files) - 1) :
             PathLess(source_files[i], source_files[i + 1])
       /\ {source_files[i] : i \in 1..Len(source_files)}
             = SourceFilesBelow(args.directory, args.entries, args.include_c)

(***************************************************************************)
(* Claims about ProjectMetrics (specification SpecProject)                 *)
(***************************************************************************)
\* C11: after any sequence of add_file calls, total_files is the number of
\* entries of file_metrics and total_functions is the length of
\* get_all_functions().
C11_CountersAreDerived ==
    /\ project.total_files = Len(project.file_metrics)
    /\ project.total_functions = Len(get_all_functions(project))

RECURSIVE Concatenation(_)
\* The lists passed to add_file, one after the other in call order.
Concatenation(calls) ==
    IF calls = <<>> THEN <<>> ELSE Head(calls)[2] \o Concatenation(Tail(calls))

\* C12: get_all_functions() is the concatenation of every list passed to
\* add_file, in call order; nothing that was added is ever dropped.
C12_AllFunctionsIsConcatenation ==
    get_all_functions(project) = Concatenation(added)

\* The add_file calls made so far all named different paths.
DistinctPaths ==
    \A a, b \in 1..Len(added) : a # b => added[a][1] # added[b][1]

\* The complexities of the records get_all_functions() returns.
Complexities ==
    LET all == get_all_functions(project)
    IN  [k \in 1..Len(all) |-> heap[all[k]].cyclomatic_complexity]

\* C13: get_average_complexity() is the arithmetic mean and
\* get_max_complexity() the maximum of cyclomatic_complexity over
\* get_all_functions(); without any function they are 0.0 and 0.
C13_MeanAndMax ==
    LET cs == Complexities
        n == Len(cs)
    IN  /\ result.call = "get_average_complexity" =>
              /\ result.value.den > 0
              /\ n = 0 => result.value = [num |-> 0, den |-> 1]
              /\ n > 0 => result.value.num * n
                              = SumF(cs, 1..n) * result.value.den
        /\ result.call = "get_max_complexity" =>
              /\ n = 0 => result.value = 0
              /\ n > 0 => /\ \E k \in 1..n : cs[k] = result.value
                          /\ \A k \in 1..n : cs[k] <= result.value

\* The mean of the complexities 3 and 2 was asked for: 5/2.
C13_Witness ==
    /\ result.call = "get_average_complexity"
    /\ Complexities = <<3, 2>>
    /\ result.value = [num |-> 5, den |-> 2]

\* The maximum of a project whose only file has no function was asked for.
C13_EmptyProject ==
    /\ result.call = "get_max_complexity"
    /\ added = <<<<1, <<>>>>>>
    /\ result.value = 0

\* C17: the number export_project_to_json writes at
\* summary.total_functions, read back, is the project's total_functions.
C17_ExportRoundTrip ==
    result.call = "export_project_to_json" =>
        json_load_int(result.value.summary.total_functions)
            = project.total_functions

\* An export of a project one path of which was added twice.
C17_Witness ==
    /\ result.call = "export_project_to_json"
    /\ ~DistinctPaths
    /\ project.total_functions = 3
    /\ result.value.summary.total_functions = <<"3">>

(***************************************************************************)
(* Claims about the commands (specification SpecCli)                       *)
(***************************************************************************)
\* The kinds of effect the command has had so far.
Did(kind) == \E k \in 1..Len(effects) : effects[k][1] = kind

\* C14: analyze on an existing file: when reading, parsing, visiting or
\* exporting raises, no exception leaves the command, an error is
\* reported and 1 is returned; 0 is returned only when the analysis, the
\* export asked for and the report were all done.
C14_AnalyzeFailsCleanly ==
    args.command = "analyze" /\ args.target = "file" =>
        LET failed ==
                args.raises # "" \/ (args.output /\ args.export_raises # "")
        IN  /\ args.raises \in FileFailures \cup {""} => cli_pc # "raised"
            /\ cli_pc = "returned" /\ failed =>
                  /\ exit_code = 1
                  /\ effects[Len(effects)] = <<"stderr", "Error">>
                  /\ ~Did("export")
            /\ cli_pc = "returned" /\ exit_code = 0 =>
                  /\ ~failed
                  /\ Did("analyze")
                  /\ args.output => Did("export")
                  /\ effects[Len(effects)] = <<"stdout", "report">>

\* A file that cannot be read: the command has returned 1.
C14_Witness ==
    /\ args.command = "analyze" /\ args.target = "file"
    /\ args.raises = "PermissionError"
    /\ cli_pc = "returned" /\ exit_code = 1
    /\ Did("analyze")

\* The path given does not name what the command works on.
InvalidInput ==
    \/ args.command = "analyze" /\ args.target # "file"
    \/ args.command = "scan" /\ args.target # "dir"

\* C15: when the path given to analyze is not an existing file, or the one
\* given to scan not an existing directory, the command returns 1 having
\* done nothing but report it: no file is discovered, read, analyzed or
\* exported at any point of the run.
C15_InvalidInputRejectedFirst ==
    InvalidInput =>
        /\ cli_pc \in {"start", "returned"}
        /\ scan_pc = "idle" /\ source_files = <<>>
        /\ \A k \in 1..Len(effects) : effects[k][1] = "stderr"
        /\ cli_pc = "returned" => exit_code = 1 /\ Len(effects) = 1

\* scan was given the path of a file, analyze the path of a directory.
C15_Witness ==
    /\ args.command = "analyze" /\ args.target = "dir"
    /\ cli_pc = "returned" /\ exit_code = 1
    /\ effects = <<<<"stderr", "is not a file">>>>

====
